---- MODULE Spec2Model ----
(***************************************************************************)
(* A model of lsystem.py: the L-system rewriter (LSystem.getFinalString)   *)
(* and the 2D and 3D turtle interpreters (LSystem.getSegments,             *)
(* LSystem3D.getSegments) with the 2D rotation cache.                      *)
(*                                                                         *)
(* Strings are sequences of one-character strings.  The turn angle is      *)
(* held as a number of quarter turns (1 is math.pi / 2, the angle of       *)
(* KochCurve, DragonCurve and HilberCurve3D), so that math.cos, math.sin   *)
(* and the scipy rotation take their exact values 0, 1, -1 and every       *)
(* vector stays on the integer lattice; the rounding of IEEE doubles is    *)
(* not modelled.                                                           *)
(***************************************************************************)
EXTENDS Integers, Sequences, FiniteSets, TLC

VARIABLES
  cls,                      \* the class of the instance: "LSystem" or "LSystem3D"
  variables,                \* self.variables
  rules,                    \* self.rules
  constants,                \* self.constants
  angle,                    \* self.angle, in quarter turns
  initialString,            \* self.initialString
  initialDirection,         \* self.initialDirection
  rotatedVectors,           \* self.rotatedVectors, the rotation cache
  initialHeadDirection,     \* self.initialHeadDirection (LSystem3D)
  initialLeftArmDirection,  \* self.initialLeftArmDirection (LSystem3D)
  pc,                       \* "idle", "expand", "expanded", "trace", "traced", "raised"
  exception,                \* the exception that ended the last call, or "none"
  iter,                     \* getFinalString: the argument iter
  round,                    \* getFinalString: rounds of the outer loop completed
  currentString,            \* getFinalString: currentString
  nextString,               \* getFinalString: nextString
  scanned,                  \* getFinalString: symbols of currentString consumed in this round
  finalString,              \* getSegments: the argument finalString
  consumed,                 \* getSegments: symbols of finalString consumed
  currentPoint,             \* getSegments: currentPoint
  currentDirection,         \* getSegments (2D): currentDirection
  rotationIndex,            \* getSegments (2D): rotationIndex
  currentHeadDirection,     \* getSegments (3D): currentHeadDirection
  currentLeftArmDirection,  \* getSegments (3D): currentLeftArmDirection
  segments,                 \* getSegments: segments
  stack,                    \* getSegments: stack
  retString,                \* the caller's string: what getFinalString returned, or a literal
  retIter,                  \* the iter of the call that returned retString, -1 if none did
  retSegments               \* the list getSegments returned (when pc = "traced")

instanceVars ==
  <<cls, variables, constants, rules, angle, initialString, initialDirection,
    initialHeadDirection, initialLeftArmDirection>>
expandVars == <<iter, round, currentString, nextString, scanned>>
traceVars ==
  <<finalString, consumed, currentPoint, currentDirection, rotationIndex,
    currentHeadDirection, currentLeftArmDirection, segments, stack>>
callerVars == <<retString, retIter, retSegments>>
vars ==
  <<instanceVars, rotatedVectors, pc, exception, expandVars, traceVars, callerVars>>

\* The value of a vector or string that is not bound.
None == <<>>

(***************************************************************************)
(* Bounds of the model.                                                    *)
(***************************************************************************)
MaxIter == 2        \* getFinalString is called with iter in 0 .. MaxIter
MaxRuleLen == 2     \* length of a rule text of a generated grammar
MaxAxiomLen == 2    \* length of the axiom of a generated grammar
MaxLen == 3         \* length of a literal string passed to getSegments
MaxRunIter == 3     \* run() expands 0 .. MaxRunIter times

\* Strings over alphabet A of length at most n.
StringsUpTo(A, n) == UNION {[1..k -> A] : k \in 0..n}

\* The empty dict.
EmptyDict == [s \in {} |-> <<>>]

\* The calls are sequential: a new call starts when none is running and the
\* caller is done with the outcome of the last one.
NoCallRunning == pc = "idle"

(***************************************************************************)
(* LSystem.getFinalString                                                  *)
(***************************************************************************)

\* Mutant of RoundsLeft: range(iter + 1), one round too many.
RoundsLeftInclusive == round <= iter

\* range(iter): another round is to be run.
RoundsLeft == round < iter

\* self.rules[symbol] raises KeyError.
KeyMissing(symbol) == symbol \in variables /\ symbol \notin DOMAIN rules

\* Mutant of Image: sequential rewriting, the replacement text is rewritten
\* again in the same round.
ImageSequential(symbol) ==
  LET again(c) == IF c \in variables /\ c \in DOMAIN rules THEN rules[c] ELSE <<c>>
      flat[i \in 0..Len(rules[symbol])] ==
        IF i = 0 THEN <<>> ELSE flat[i - 1] \o again(rules[symbol][i])
  IN IF symbol \in variables THEN flat[Len(rules[symbol])] ELSE <<symbol>>

\* Mutant of Image: the lookup is keyed on the rule mapping, not on variables.
ImageByRules(symbol) ==
  IF symbol \in DOMAIN rules THEN rules[symbol] ELSE <<symbol>>

\* What one symbol appends to nextString.
Image(symbol) == IF symbol \in variables THEN rules[symbol] ELSE <<symbol>>

\* Entry of getFinalString(n), up to the head of the outer loop.
CallGetFinalString(n) ==
  /\ NoCallRunning
  /\ pc' = "expand"
  /\ exception' = "none"
  /\ iter' = n
  /\ round' = 0
  /\ currentString' = initialString
  /\ nextString' = <<>>
  /\ scanned' = 0
  /\ UNCHANGED <<instanceVars, rotatedVectors, traceVars, callerVars>>

\* One iteration of the inner loop.
RewriteSymbol ==
  /\ pc = "expand"
  /\ RoundsLeft
  /\ scanned < Len(currentString)
  /\ LET symbol == currentString[scanned + 1] IN
       IF KeyMissing(symbol)
       THEN /\ pc' = "raised"
            /\ exception' = "KeyError"
            /\ UNCHANGED <<nextString, scanned>>
       ELSE /\ nextString' = nextString \o Image(symbol)
            /\ scanned' = scanned + 1
            /\ UNCHANGED <<pc, exception>>
  /\ UNCHANGED <<instanceVars, rotatedVectors, iter, round, currentString,
                 traceVars, callerVars>>

\* Mutant of EndRound: nextString is not reset at the head of the next round.
EndRoundKeepNext ==
  /\ pc = "expand"
  /\ RoundsLeft
  /\ scanned = Len(currentString)
  /\ currentString' = nextString
  /\ round' = round + 1
  /\ nextString' = nextString
  /\ scanned' = 0
  /\ UNCHANGED <<instanceVars, rotatedVectors, pc, exception, iter,
                 traceVars, callerVars>>

\* The inner loop is exhausted: currentString = nextString, and the head of
\* the next round, if there is one, resets nextString.
EndRound ==
  /\ pc = "expand"
  /\ RoundsLeft
  /\ scanned = Len(currentString)
  /\ currentString' = nextString
  /\ round' = round + 1
  /\ nextString' = IF round + 1 < iter THEN <<>> ELSE nextString
  /\ scanned' = 0
  /\ UNCHANGED <<instanceVars, rotatedVectors, pc, exception, iter,
                 traceVars, callerVars>>

\* The inner loop run on s from its symbol i on, with nextString = next.
RECURSIVE RewriteFrom(_, _, _)
RewriteFrom(s, i, next) ==
  IF i > Len(s) THEN next ELSE RewriteFrom(s, i + 1, next \o Image(s[i]))

\* One round of the outer loop on s: the value assigned to currentString.
rewriteOnce(s) == RewriteFrom(s, 1, <<>>)

\* return currentString
ReturnFinalString ==
  /\ pc = "expand"
  /\ ~RoundsLeft
  /\ pc' = "expanded"
  /\ retString' = currentString
  /\ retIter' = iter
  /\ UNCHANGED <<instanceVars, rotatedVectors, exception, expandVars,
                 traceVars, retSegments>>

(***************************************************************************)
(* Vectors, and the rotations at multiples of a quarter turn.              *)
(***************************************************************************)
Add2(a, b) == <<a[1] + b[1], a[2] + b[2]>>
Add3(a, b) == <<a[1] + b[1], a[2] + b[2], a[3] + b[3]>>
Neg3(a) == <<-a[1], -a[2], -a[3]>>
Scale3(c, a) == <<c * a[1], c * a[2], c * a[3]>>
Dot3(a, b) == a[1] * b[1] + a[2] * b[2] + a[3] * b[3]
\* np.cross
Cross3(a, b) ==
  <<a[2] * b[3] - a[3] * b[2], a[3] * b[1] - a[1] * b[3], a[1] * b[2] - a[2] * b[1]>>

\* math.cos and math.sin of q quarter turns.
Cos(q) == CASE q % 4 = 0 -> 1 [] q % 4 = 1 -> 0 [] q % 4 = 2 -> -1 [] OTHER -> 0
Sin(q) == CASE q % 4 = 0 -> 0 [] q % 4 = 1 -> 1 [] q % 4 = 2 -> 0 [] OTHER -> -1

\* Mutant of RotatedUnitVector: the sine is taken of abs(k) turns.
RotatedUnitVectorAbsSine(k) ==
  LET idx0 == initialDirection[1]
      idx1 == initialDirection[2]
      coskth == Cos(angle * k)
      sinkth == Sin(angle * (IF k < 0 THEN -k ELSE k))
  IN <<coskth * idx0 - sinkth * idx1, sinkth * idx0 + coskth * idx1>>

\* The vector getKthRotatedUnitVector computes on a cache miss.
RotatedUnitVector(k) ==
  LET idx0 == initialDirection[1]
      idx1 == initialDirection[2]
      coskth == Cos(angle * k)
      sinkth == Sin(angle * k)
  IN <<coskth * idx0 - sinkth * idx1, sinkth * idx0 + coskth * idx1>>

\* math.pi / 2 is a double that falls short of a quarter turn by
\* u = 6.1e-17, so self.angle * k falls short of angle * k quarter turns by
\* angle * k * u.  To first order in u, what math.cos and math.sin return
\* differs from Cos and Sin by these multiples of u (the doubles agree with
\* this for abs(q) <= 10, which covers every index the traces reach).
CosResidue(q) == q * Sin(q)
SinResidue(q) == -(q * Cos(q))

\* By how many u each coordinate of the entry for index k differs from
\* RotatedUnitVector(k).  The entry for 0 is initialDirection itself.
RotatedUnitVectorResidue(k) ==
  LET idx0 == initialDirection[1]
      idx1 == initialDirection[2]
      coskth == CosResidue(angle * k)
      sinkth == SinResidue(angle * k)
  IN <<coskth * idx0 - sinkth * idx1, sinkth * idx0 + coskth * idx1>>

\* Mutant of getKthRotatedUnitVector: a miss evicts every entry but the one
\* for 0.
getKthRotatedUnitVectorEvict(cache, k) ==
  LET filled == IF k \notin DOMAIN cache
                THEN (0 :> cache[0]) @@ (k :> RotatedUnitVector(k))
                ELSE cache
  IN [cache |-> filled, vector |-> filled[k]]

\* Mutant of getKthRotatedUnitVector: the cache is keyed on abs(k).
getKthRotatedUnitVectorAbsKey(cache, k) ==
  LET key == IF k < 0 THEN -k ELSE k
      filled == IF key \notin DOMAIN cache
                THEN cache @@ (key :> RotatedUnitVector(k))
                ELSE cache
  IN [cache |-> filled, vector |-> filled[key]]

\* getKthRotatedUnitVector(k) on the cache it finds: the cache it leaves and
\* the vector it returns.
getKthRotatedUnitVector(cache, k) ==
  LET filled == IF k \notin DOMAIN cache
                THEN cache @@ (k :> RotatedUnitVector(k))
                ELSE cache
  IN [cache |-> filled, vector |-> filled[k]]

\* R.from_rotvec(self.angle * rotationAxis).apply(v), for a unit rotationAxis
\* (Rodrigues' formula).
Rotate3(rotationAxis, v) ==
  Add3(Add3(Scale3(Cos(angle), v), Scale3(Sin(angle), Cross3(rotationAxis, v))),
       Scale3((1 - Cos(angle)) * Dot3(rotationAxis, v), rotationAxis))

(***************************************************************************)
(* LSystem.getSegments: the loop body on the locals                        *)
(*   t = [point, direction, index, segments, stack, cache, raised]         *)
(***************************************************************************)
forwardDrawSymbols == {"F", "G"}
forwardJumpSymbols == {"f", "g"}

\* Mutant of Draw2D: the segment is appended and currentPoint is not advanced.
Draw2DNoAdvance(t) ==
  [t EXCEPT !.segments = Append(@, <<t.point, Add2(t.point, t.direction)>>)]

\* Mutant of Draw2D: the segment is put at the head of the list.
Draw2DPrepend(t) ==
  LET nextPoint == Add2(t.point, t.direction) IN
    [t EXCEPT !.segments = <<(<<t.point, nextPoint>>)>> \o @, !.point = nextPoint]

Draw2D(t) ==
  LET nextPoint == Add2(t.point, t.direction) IN
    [t EXCEPT !.segments = Append(@, <<t.point, nextPoint>>), !.point = nextPoint]

Jump2D(t) == [t EXCEPT !.point = Add2(t.point, t.direction)]

\* '+' (by = 1) and '-' (by = -1).
Turn2D(t, by) ==
  LET got == getKthRotatedUnitVector(t.cache, t.index + by) IN
    [t EXCEPT !.index = t.index + by, !.direction = got.vector, !.cache = got.cache]

Push2D(t) == [t EXCEPT !.stack = Append(@, <<t.point, t.direction, t.index>>)]

\* Mutant of Pop2D: currentDirection is not restored.
Pop2DKeepDirection(t) ==
  IF t.stack = <<>>
  THEN [t EXCEPT !.raised = TRUE]
  ELSE LET top == t.stack[Len(t.stack)] IN
         [t EXCEPT !.point = top[1], !.index = top[3],
                   !.stack = SubSeq(t.stack, 1, Len(t.stack) - 1)]

\* Mutant of Pop2D: rotationIndex is not restored.
Pop2DKeepIndex(t) ==
  IF t.stack = <<>>
  THEN [t EXCEPT !.raised = TRUE]
  ELSE LET top == t.stack[Len(t.stack)] IN
         [t EXCEPT !.point = top[1], !.direction = top[2],
                   !.stack = SubSeq(t.stack, 1, Len(t.stack) - 1)]

\* Mutant of Pop2D: popping an empty stack is ignored.
Pop2DIgnoreEmpty(t) ==
  IF t.stack = <<>>
  THEN t
  ELSE LET top == t.stack[Len(t.stack)] IN
         [t EXCEPT !.point = top[1], !.direction = top[2], !.index = top[3],
                   !.stack = SubSeq(t.stack, 1, Len(t.stack) - 1)]

\* stack.pop() raises IndexError on an empty list, before anything is assigned.
Pop2D(t) ==
  IF t.stack = <<>>
  THEN [t EXCEPT !.raised = TRUE]
  ELSE LET top == t.stack[Len(t.stack)] IN
         [t EXCEPT !.point = top[1], !.direction = top[2], !.index = top[3],
                   !.stack = SubSeq(t.stack, 1, Len(t.stack) - 1)]

\* Mutant of Step2D: the draw test heads the elif chain, and a jump symbol
\* falls into the draw branch as well.
Step2DJumpDraws(t, symbol) ==
  IF symbol \in forwardDrawSymbols \cup forwardJumpSymbols THEN Draw2D(t)
  ELSE IF symbol = "+" THEN Turn2D(t, 1)
  ELSE IF symbol = "-" THEN Turn2D(t, -1)
  ELSE IF symbol = "[" THEN Push2D(t)
  ELSE IF symbol = "]" THEN Pop2D(t)
  ELSE t

\* Mutant of Step2D: a symbol that no branch tests for moves the turtle.
Step2DOtherJumps(t, symbol) ==
  LET drawn == IF symbol \in forwardDrawSymbols THEN Draw2D(t) ELSE t IN
    IF symbol \in forwardJumpSymbols THEN Jump2D(drawn)
    ELSE IF symbol = "+" THEN Turn2D(drawn, 1)
    ELSE IF symbol = "-" THEN Turn2D(drawn, -1)
    ELSE IF symbol = "[" THEN Push2D(drawn)
    ELSE IF symbol = "]" THEN Pop2D(drawn)
    ELSE IF symbol \in forwardDrawSymbols THEN drawn
    ELSE Jump2D(drawn)

\* One iteration of the loop: the draw test, then the jump/turn/push/pop chain.
Step2D(t, symbol) ==
  LET drawn == IF symbol \in forwardDrawSymbols THEN Draw2D(t) ELSE t IN
    IF symbol \in forwardJumpSymbols THEN Jump2D(drawn)
    ELSE IF symbol = "+" THEN Turn2D(drawn, 1)
    ELSE IF symbol = "-" THEN Turn2D(drawn, -1)
    ELSE IF symbol = "[" THEN Push2D(drawn)
    ELSE IF symbol = "]" THEN Pop2D(drawn)
    ELSE drawn

\* The locals at the head of the loop of LSystem.getSegments.
Start2D(cache) ==
  [point |-> <<0, 0>>, direction |-> initialDirection, index |-> 0,
   segments |-> <<>>, stack |-> <<>>, cache |-> cache, raised |-> FALSE]

(***************************************************************************)
(* LSystem3D.getSegments: the loop body on the locals                      *)
(*   t = [point, head, leftArm, segments, stack, raised]                   *)
(***************************************************************************)
rotationSymbols == {"+", "-", "&", "^", "\\", "/"}

Draw3D(t) ==
  LET nextPoint == Add3(t.point, t.head) IN
    [t EXCEPT !.segments = Append(@, <<t.point, nextPoint>>), !.point = nextPoint]

Jump3D(t) == [t EXCEPT !.point = Add3(t.point, t.head)]

\* Mutant of rotationAxis: each pair of opposite turns shares one axis.
rotationAxisOneWay(t, symbol) ==
  CASE symbol \in {"+", "-"} -> Cross3(t.head, t.leftArm)
    [] symbol \in {"&", "^"} -> t.leftArm
    [] symbol \in {"\\", "/"} -> t.head

rotationAxis(t, symbol) ==
  CASE symbol = "+" -> Cross3(t.head, t.leftArm)
    [] symbol = "-" -> Cross3(t.leftArm, t.head)
    [] symbol = "&" -> t.leftArm
    [] symbol = "^" -> Neg3(t.leftArm)
    [] symbol = "\\" -> t.head
    [] symbol = "/" -> Neg3(t.head)

\* Mutant of Turn3D: only currentHeadDirection is rotated.
Turn3DHeadOnly(t, symbol) ==
  [t EXCEPT !.head = Rotate3(rotationAxis(t, symbol), t.head)]

Turn3D(t, symbol) ==
  LET axis == rotationAxis(t, symbol) IN
    [t EXCEPT !.head = Rotate3(axis, t.head), !.leftArm = Rotate3(axis, t.leftArm)]

TurnAround3D(t) == [t EXCEPT !.head = Neg3(t.head), !.leftArm = Neg3(t.leftArm)]

\* Mutant of Push3D: the stack holds the last saved state only.
Push3DFlat(t) == [t EXCEPT !.stack = <<(<<t.point, t.head, t.leftArm>>)>>]

Push3D(t) == [t EXCEPT !.stack = Append(@, <<t.point, t.head, t.leftArm>>)]

Pop3D(t) ==
  IF t.stack = <<>>
  THEN [t EXCEPT !.raised = TRUE]
  ELSE LET top == t.stack[Len(t.stack)] IN
         [t EXCEPT !.point = top[1], !.head = top[2], !.leftArm = top[3],
                   !.stack = SubSeq(t.stack, 1, Len(t.stack) - 1)]

Step3D(t, symbol) ==
  LET drawn == IF symbol \in forwardDrawSymbols THEN Draw3D(t) ELSE t IN
    IF symbol \in forwardJumpSymbols THEN Jump3D(drawn)
    ELSE IF symbol \in rotationSymbols THEN Turn3D(drawn, symbol)
    ELSE IF symbol = "|" THEN TurnAround3D(drawn)
    ELSE IF symbol = "[" THEN Push3D(drawn)
    ELSE IF symbol = "]" THEN Pop3D(drawn)
    ELSE drawn

\* The loop of LSystem.getSegments run on s from its symbol i on, from the
\* locals t; it stops where stack.pop() raises.
RECURSIVE Loop2D(_, _, _)
Loop2D(t, s, i) ==
  IF i > Len(s) \/ t.raised THEN t ELSE Loop2D(Step2D(t, s[i]), s, i + 1)

\* The loop of LSystem3D.getSegments, likewise.
RECURSIVE Loop3D(_, _, _)
Loop3D(t, s, i) ==
  IF i > Len(s) \/ t.raised THEN t ELSE Loop3D(Step3D(t, s[i]), s, i + 1)

\* The locals at the head of the loop of LSystem3D.getSegments.
Start3D ==
  [point |-> <<0, 0, 0>>, head |-> initialHeadDirection,
   leftArm |-> initialLeftArmDirection, segments |-> <<>>, stack |-> <<>>,
   raised |-> FALSE]

(***************************************************************************)
(* getSegments as steps of the instance                                    *)
(***************************************************************************)

\* Entry of getSegments(s), up to the head of the loop; the method is the one
\* of the instance's class.
CallGetSegments(s) ==
  /\ pc' = "trace"
  /\ exception' = "none"
  /\ finalString' = s
  /\ consumed' = 0
  /\ segments' = <<>>
  /\ stack' = <<>>
  /\ IF cls = "LSystem3D"
     THEN /\ currentPoint' = <<0, 0, 0>>
          /\ currentHeadDirection' = initialHeadDirection
          /\ currentLeftArmDirection' = initialLeftArmDirection
          /\ currentDirection' = None
     ELSE /\ currentPoint' = <<0, 0>>
          /\ currentDirection' = initialDirection
          /\ currentHeadDirection' = None
          /\ currentLeftArmDirection' = None
  /\ rotationIndex' = 0
  /\ iter' = 0 /\ round' = 0 /\ currentString' = <<>> /\ nextString' = <<>>
  /\ scanned' = 0
  /\ UNCHANGED <<instanceVars, rotatedVectors, retSegments>>

\* The caller traces a literal string, one of the set S.
TraceLiteral(S) ==
  /\ NoCallRunning
  /\ \E s \in S : CallGetSegments(s)
  /\ UNCHANGED <<retString, retIter>>

\* The caller traces the string getFinalString has just returned to it:
\* segments = system.getSegments(finalString).
TraceExpansion ==
  /\ pc = "expanded"
  /\ CallGetSegments(retString)
  /\ UNCHANGED <<retString, retIter>>

\* The locals of the running LSystem.getSegments call.
Locals2D ==
  [point |-> currentPoint, direction |-> currentDirection, index |-> rotationIndex,
   segments |-> segments, stack |-> stack, cache |-> rotatedVectors, raised |-> FALSE]

\* The locals of the running LSystem3D.getSegments call.
Locals3D ==
  [point |-> currentPoint, head |-> currentHeadDirection,
   leftArm |-> currentLeftArmDirection, segments |-> segments, stack |-> stack,
   raised |-> FALSE]

\* One iteration of the loop of LSystem.getSegments.
TraceSymbol2D ==
  LET t == Step2D(Locals2D, finalString[consumed + 1]) IN
    /\ IF t.raised
       THEN /\ pc' = "raised"
            /\ exception' = "IndexError"
            /\ UNCHANGED <<consumed, currentPoint, currentDirection, rotationIndex,
                           segments, stack, rotatedVectors>>
       ELSE /\ currentPoint' = t.point
            /\ currentDirection' = t.direction
            /\ rotationIndex' = t.index
            /\ segments' = t.segments
            /\ stack' = t.stack
            /\ rotatedVectors' = t.cache
            /\ consumed' = consumed + 1
            /\ UNCHANGED <<pc, exception>>
    /\ UNCHANGED <<currentHeadDirection, currentLeftArmDirection>>

\* One iteration of the loop of LSystem3D.getSegments.
TraceSymbol3D ==
  LET t == Step3D(Locals3D, finalString[consumed + 1]) IN
    /\ IF t.raised
       THEN /\ pc' = "raised"
            /\ exception' = "IndexError"
            /\ UNCHANGED <<consumed, currentPoint, currentHeadDirection,
                           currentLeftArmDirection, segments, stack>>
       ELSE /\ currentPoint' = t.point
            /\ currentHeadDirection' = t.head
            /\ currentLeftArmDirection' = t.leftArm
            /\ segments' = t.segments
            /\ stack' = t.stack
            /\ consumed' = consumed + 1
            /\ UNCHANGED <<pc, exception>>
    /\ UNCHANGED <<currentDirection, rotationIndex, rotatedVectors>>

\* One iteration of the loop of getSegments, in the method of the instance's
\* class.
TraceSymbol ==
  /\ pc = "trace"
  /\ consumed < Len(finalString)
  /\ IF cls = "LSystem3D" THEN TraceSymbol3D ELSE TraceSymbol2D
  /\ UNCHANGED <<instanceVars, finalString, expandVars, callerVars>>

\* return segments
ReturnSegments ==
  /\ pc = "trace"
  /\ consumed = Len(finalString)
  /\ pc' = "traced"
  /\ retSegments' = segments
  /\ UNCHANGED <<instanceVars, rotatedVectors, exception, expandVars, traceVars,
                 retString, retIter>>

\* The caller is done with the outcome of a call, a value or an exception;
\* the frame of the call is gone, the instance and the caller's string stay.
Discard ==
  /\ pc \in {"expanded", "traced", "raised"}
  /\ pc' = "idle"
  /\ exception' = "none"
  /\ iter' = 0 /\ round' = 0 /\ currentString' = <<>> /\ nextString' = <<>>
  /\ scanned' = 0
  /\ finalString' = None /\ consumed' = 0 /\ currentPoint' = None
  /\ currentDirection' = None /\ rotationIndex' = 0
  /\ currentHeadDirection' = None /\ currentLeftArmDirection' = None
  /\ segments' = <<>> /\ stack' = <<>>
  /\ retSegments' = <<>>
  /\ UNCHANGED <<instanceVars, rotatedVectors, retString, retIter>>

\* The frames of an instance on which nothing was called yet.
NoCallYet ==
  /\ pc = "idle" /\ exception = "none"
  /\ iter = 0 /\ round = 0 /\ currentString = <<>> /\ nextString = <<>>
  /\ scanned = 0
  /\ finalString = None /\ consumed = 0 /\ currentPoint = None
  /\ currentDirection = None /\ rotationIndex = 0
  /\ currentHeadDirection = None /\ currentLeftArmDirection = None
  /\ segments = <<>> /\ stack = <<>>
  /\ retString = <<>> /\ retIter = -1 /\ retSegments = <<>>

\* LSystem.__init__ and initRotatedVectors.
Constructed(vs, cs, rs, a, axiom, dir) ==
  /\ variables = vs
  /\ constants = cs
  /\ rules = rs
  /\ angle = a
  /\ initialString = axiom
  /\ initialDirection = dir
  /\ rotatedVectors = (0 :> dir)

(***************************************************************************)
(* The rewriter on generated grammars.                                     *)
(***************************************************************************)
GrammarAlphabet == {"F", "+"}

InitRewrite ==
  /\ cls = "LSystem"
  /\ \E vs \in SUBSET GrammarAlphabet :
     \E D \in SUBSET GrammarAlphabet :
     \E rs \in [D -> StringsUpTo(GrammarAlphabet, MaxRuleLen)] :
     \E axiom \in StringsUpTo(GrammarAlphabet, MaxAxiomLen) :
       Constructed(vs, GrammarAlphabet \ vs, rs, 1, axiom, <<1, 0>>)
  /\ initialHeadDirection = None /\ initialLeftArmDirection = None
  /\ NoCallYet

NextRewrite ==
  \/ \E n \in 0..MaxIter : CallGetFinalString(n)
  \/ RewriteSymbol
  \/ EndRound
  \/ ReturnFinalString
  \/ Discard

SpecRewrite == InitRewrite /\ [][NextRewrite]_vars

(***************************************************************************)
(* The grammars of the instances.                                          *)
(***************************************************************************)

\* KochCurve
KochVariables == {"F"}
KochConstants == {"+", "-"}
KochRules == "F" :> <<"F", "+", "F", "-", "F", "-", "F", "+", "F">>
KochAxiom == <<"F">>

\* DragonCurve
DragonVariables == {"F", "G"}
DragonConstants == {"+", "-"}
DragonRules == ("F" :> <<"F", "+", "G", "+">>) @@ ("G" :> <<"-", "F", "-", "G">>)
DragonAxiom == <<"F">>

\* An LSystem constructed with the fractal plant grammar of the branching
\* scenario: the grammar of FractalPlantF with the two turn signs exchanged.
PlantVariables == {"X", "F"}
PlantConstants == {"+", "-", "[", "]"}
PlantRules ==
  ("X" :> <<"F", "+", "[", "[", "X", "]", "-", "X", "]", "-", "F", "[", "-", "F", "X", "]", "+", "X">>)
    @@ ("F" :> <<"F", "F">>)
PlantAxiom == <<"X">>

(***************************************************************************)
(* The interpreters: an LSystem or LSystem3D instance with a quarter-turn  *)
(* angle, on which getSegments is called again and again, each time with a *)
(* literal string of at most MaxLen symbols.                               *)
(***************************************************************************)
Alphabet2D == {"F", "f", "+", "-", "[", "]", "X"}
Alphabet3D == {"F", "f", "+", "-", "&", "^", "\\", "/", "|", "[", "]"}

\* Initial heading and angle (in quarter turns) of the 2D instances: the
\* defaults of KochCurve, and the heading the fractal plants pass with
\* math.pi for the angle.
Instances2D == {<<(<<1, 0>>), 1>>, <<(<<0, 1>>), 2>>}

\* Initial (head, left arm) pairs of the 3D instances: the default of
\* LSystem3D.__init__ and another orthonormal pair.
InitialFrames == {<<(<<0, 0, 1>>), (<<-1, 0, 0>>)>>, <<(<<1, 0, 0>>), (<<0, 1, 0>>)>>}

\* Longer literal strings, with nested and with unclosed brackets, with a
\* full turn to either side (2D) and with every pair of opposite turns (3D).
Branching2D ==
  { <<"+", "+", "+", "+", "F", "-", "-", "-", "-", "-", "-", "-", "-", "G">>,
    <<"F", "[", "+", "F", "[", "-", "f", "]", "G", "]", "-", "F">>,
    <<"[", "[", "+", "F", "]", "-", "F", "]", "+", "[", "F", "]", "f">>,
    <<"+", "[", "-", "-", "F", "[", "+", "+", "+", "G">> }
Branching3D ==
  { <<"+", "&", "\\", "F", "+", "-", "&", "^", "\\", "/", "|", "|", "-", "+", "^", "&",
      "/", "\\", "F">>,
    <<"F", "[", "&", "F", "[", "\\", "f", "]", "+", "F", "]", "^", "F">>,
    <<"[", "[", "/", "F", "]", "|", "F", "]", "-", "[", "&", "F", "]", "f">>,
    <<"&", "[", "+", "\\", "F", "[", "|", "^", "F">> }

Literals ==
  IF cls = "LSystem3D"
  THEN StringsUpTo(Alphabet3D, MaxLen) \cup Branching3D
  ELSE StringsUpTo(Alphabet2D, MaxLen) \cup Branching2D

Init ==
  /\ cls \in {"LSystem", "LSystem3D"}
  /\ \E i \in IF cls = "LSystem3D" THEN {<<(<<1, 0>>), 1>>} ELSE Instances2D :
       Constructed(KochVariables, KochConstants, KochRules, i[2], KochAxiom, i[1])
  /\ IF cls = "LSystem3D"
     THEN \E frame \in InitialFrames :
            /\ initialHeadDirection = frame[1]
            /\ initialLeftArmDirection = frame[2]
     ELSE initialHeadDirection = None /\ initialLeftArmDirection = None
  /\ NoCallYet

Next ==
  \/ TraceLiteral(Literals)
  \/ TraceSymbol
  \/ ReturnSegments
  \/ Discard

Spec == Init /\ [][Next]_vars

(***************************************************************************)
(* run(): a fresh 2D instance with a quarter-turn angle (KochCurve,        *)
(* DragonCurve, the fractal plant) is expanded iter times and the          *)
(* expansion is traced; or a literal string is traced on it.               *)
(***************************************************************************)
InitRun ==
  /\ cls = "LSystem"
  /\ \/ Constructed(KochVariables, KochConstants, KochRules, 1, KochAxiom, <<1, 0>>)
     \/ Constructed(DragonVariables, DragonConstants, DragonRules, 1, DragonAxiom, <<1, 0>>)
     \/ Constructed(PlantVariables, PlantConstants, PlantRules, 1, PlantAxiom, <<0, 1>>)
  /\ initialHeadDirection = None /\ initialLeftArmDirection = None
  /\ NoCallYet

NextRun ==
  \/ \E n \in 0..MaxRunIter : CallGetFinalString(n)
  \/ RewriteSymbol
  \/ EndRound
  \/ ReturnFinalString
  \/ TraceExpansion
  \/ TraceLiteral(Literals)
  \/ TraceSymbol
  \/ ReturnSegments

SpecRun == InitRun /\ [][NextRun]_vars

(***************************************************************************)
(* One KochCurve instance on which getFinalString and getSegments are      *)
(* called again and again, in any order: getFinalString with at most       *)
(* MaxCallIter rounds, getSegments with the string getFinalString returned *)
(* or with a literal string.                                               *)
(***************************************************************************)
MaxCallIter == 1

InitCalls ==
  /\ cls = "LSystem"
  /\ Constructed(KochVariables, KochConstants, KochRules, 1, KochAxiom, <<1, 0>>)
  /\ initialHeadDirection = None /\ initialLeftArmDirection = None
  /\ NoCallYet

NextCalls ==
  \/ \E n \in 0..MaxCallIter : CallGetFinalString(n)
  \/ RewriteSymbol
  \/ EndRound
  \/ ReturnFinalString
  \/ TraceExpansion
  \/ TraceLiteral(Literals)
  \/ TraceSymbol
  \/ ReturnSegments
  \/ Discard

SpecCalls == InitCalls /\ [][NextCalls]_vars

(***************************************************************************)
(* Claims about the rewriter, checked under SpecRewrite.                   *)
(***************************************************************************)

\* The image of a symbol as the specification words it: the rule text for a
\* variable, the symbol itself otherwise.
ImageAsSpecified(symbol) ==
  IF symbol \in variables THEN rules[symbol] ELSE <<symbol>>

RECURSIVE ImagesOf(_)
ImagesOf(s) ==
  IF s = <<>> THEN <<>> ELSE ImageAsSpecified(Head(s)) \o ImagesOf(Tail(s))

\* C1: a rewriting round is parallel.  At every point of a round nextString
\* is the left-to-right concatenation of the images of the symbols consumed
\* so far of the string the round started from, and at the end of the round
\* the output is rewriteOnce(s) \o rewriteOnce(t) for every split s \o t of
\* that string: replacement text is never rewritten in the round that
\* produced it.
C1_ParallelRound ==
  (pc = "expand" /\ RoundsLeft) =>
    /\ nextString = ImagesOf(SubSeq(currentString, 1, scanned))
    /\ scanned = Len(currentString) =>
         \A j \in 0..Len(currentString) :
           nextString = rewriteOnce(SubSeq(currentString, 1, j))
                          \o rewriteOnce(SubSeq(currentString, j + 1, Len(currentString)))

\* A round has consumed a string of two symbols or more, one of them a
\* variable whose rule text holds a variable that has a rule of its own.
C1_Witness ==
  /\ pc = "expand" /\ RoundsLeft
  /\ scanned = Len(currentString) /\ scanned >= 2
  /\ \E i \in 1..scanned :
       /\ currentString[i] \in variables
       /\ \E j \in 1..Len(rules[currentString[i]]) :
            LET c == rules[currentString[i]][j] IN
              c \in variables /\ c \in DOMAIN rules /\ rules[c] # <<c>>

\* C2: expansion is compositional.  When getFinalString(n + 1) returns after
\* getFinalString(n) returned on the same grammar, its result is one
\* rewriting round applied to the result of getFinalString(n).
C2_Compositional ==
  [][(pc = "expand" /\ pc' = "expanded" /\ retIter >= 0 /\ iter = retIter + 1)
       => retString' = rewriteOnce(retString)]_vars

\* getFinalString(n + 1), n >= 1, is about to return a string that differs
\* from what getFinalString(n) returned.
C2_Witness ==
  /\ pc = "expand" /\ ~RoundsLeft
  /\ retIter >= 0 /\ iter = retIter + 1 /\ iter >= 2
  /\ currentString # retString

\* C3: getFinalString(0) returns the axiom unchanged, whatever the variables
\* and the rules are.
C3_ZeroIterations ==
  (pc = "expanded" /\ retIter = 0) => retString = initialString

\* getFinalString(0) returned on a grammar whose axiom a round would change.
C3_Witness ==
  /\ pc = "expanded" /\ retIter = 0
  /\ \E i \in 1..Len(initialString) :
       LET c == initialString[i] IN
         c \in variables /\ c \in DOMAIN rules /\ rules[c] # <<c>>

\* The inner loop is about to consume a symbol.
AtSymbol == pc = "expand" /\ RoundsLeft /\ scanned < Len(currentString)

\* C4 as stated: the missing-rule policy is fail-open.  Every symbol without
\* an entry in the rule mapping, a variable included, is copied to the output
\* unchanged, and no expansion ends in an error because a rule is missing.
C4_FailOpen ==
  [][(AtSymbol /\ currentString[scanned + 1] \notin DOMAIN rules)
       => /\ nextString' = nextString \o <<currentString[scanned + 1]>>
          /\ pc' = "expand"]_vars

\* C4 as amended: a symbol that is not listed among the variables is copied
\* to the output unchanged, whether or not the rule mapping has an entry for
\* it; a symbol listed among the variables without an entry in the rule
\* mapping ends the expansion with KeyError, and nothing is appended for it.
C4_MissingRuleRaises ==
  [][AtSymbol =>
       LET symbol == currentString[scanned + 1] IN
         /\ symbol \notin variables
              => /\ nextString' = nextString \o <<symbol>>
                 /\ pc' = "expand"
         /\ (symbol \in variables /\ symbol \notin DOMAIN rules)
              => /\ pc' = "raised" /\ exception' = "KeyError"
                 /\ nextString' = nextString
                 /\ retString' = retString]_vars

\* An expansion ended with KeyError after it had copied a symbol that is not a
\* variable but has an entry in the rule mapping.
C4_Witness ==
  /\ pc = "raised" /\ exception = "KeyError"
  /\ scanned >= 1
  /\ currentString[1] \notin variables
  /\ currentString[1] \in DOMAIN rules
  /\ rules[currentString[1]] # <<currentString[1]>>
  /\ nextString[1] = currentString[1]

(***************************************************************************)
(* Claims about the tracer                                                 *)
(***************************************************************************)
\* Number of '[' minus number of ']' among the first j symbols of s.
Depth(s, j) ==
  Cardinality({i \in 1..j : s[i] = "["}) - Cardinality({i \in 1..j : s[i] = "]"})

\* No prefix of the first j symbols of s closes a bracket that is not open.
NoUnderflow(s, j) == \A i \in 0..j : Depth(s, i) >= 0

\* Position of the '[' that the ']' at position i of s closes.
MatchOf(s, i) ==
  CHOOSE m \in 1..i :
    /\ s[m] = "["
    /\ Depth(s, m - 1) = Depth(s, i)
    /\ \A j \in m..(i - 1) : Depth(s, j) > Depth(s, i)

\* s with every balanced bracketed substring deleted: the symbols that stand
\* outside every bracket pair.
RECURSIVE PrunedFrom(_, _)
PrunedFrom(s, i) ==
  IF i > Len(s) THEN <<>>
  ELSE (IF Depth(s, i - 1) = 0 /\ s[i] # "[" THEN <<s[i]>> ELSE <<>>)
         \o PrunedFrom(s, i + 1)

Pruned(s) == PrunedFrom(s, 1)

\* Position, heading and rotation index (2D), or position, head and left arm
\* (3D), of a record of locals and of the running call.
Turtle2D(t) == <<t.point, t.direction, t.index>>
Turtle3D(t) == <<t.point, t.head, t.leftArm>>
TurtleNow ==
  IF cls = "LSystem3D"
  THEN <<currentPoint, currentHeadDirection, currentLeftArmDirection>>
  ELSE <<currentPoint, currentDirection, rotationIndex>>

\* The turtle after s has been traced from the initial state.
TurtleAfter(s) ==
  IF cls = "LSystem3D"
  THEN Turtle3D(Loop3D(Start3D, s, 1))
  ELSE Turtle2D(Loop2D(Start2D(rotatedVectors), s, 1))

Tracing == pc \in {"trace", "traced"}

\* C5: bracket restoration, in 2D and in 3D.  Once a matched ']' has been
\* consumed, the turtle is in the state it had just before the matching '['
\* was consumed; and the turtle at the end of a trace of a well-bracketed
\* string is the turtle at the end of a trace of that string with every
\* balanced bracketed substring deleted.
C5_BracketRestoration ==
  /\ (Tracing /\ consumed >= 1 /\ finalString[consumed] = "]")
       => TurtleNow
            = TurtleAfter(SubSeq(finalString, 1, MatchOf(finalString, consumed) - 1))
  /\ (pc = "traced" /\ Depth(finalString, Len(finalString)) = 0)
       => TurtleNow = TurtleAfter(Pruned(finalString))

\* A trace has returned on a string with nested bracket pairs that hold draws
\* and turns, followed by symbols outside every bracket.
C5_Witness ==
  /\ pc = "traced"
  /\ Depth(finalString, Len(finalString)) = 0
  /\ \E i \in 1..Len(finalString) : Depth(finalString, i) = 2
  /\ \E i \in 1..Len(finalString) :
       /\ Depth(finalString, i) >= 1
       /\ finalString[i] \in rotationSymbols
  /\ \E i \in 1..Len(finalString) :
       /\ Depth(finalString, i) >= 1
       /\ finalString[i] \in forwardDrawSymbols
  /\ finalString[Len(finalString)] \notin {"[", "]"}
  /\ Pruned(finalString) # finalString

\* C6: a ']' met while the stack is empty is an error, in 2D and in 3D.  No
\* call goes on past such a symbol; the call ends with IndexError at the
\* symbol, the turtle is left as it was before the symbol, nothing is
\* restored, and the call returns no segment list.
C6_UnmatchedPopRaises ==
  /\ Tracing => NoUnderflow(finalString, consumed)
  /\ pc = "raised"
       => /\ exception = "IndexError"
          /\ consumed < Len(finalString)
          /\ finalString[consumed + 1] = "]"
          /\ NoUnderflow(finalString, consumed)
          /\ Depth(finalString, consumed) = 0
          /\ stack = <<>>
          /\ TurtleNow = TurtleAfter(SubSeq(finalString, 1, consumed))
          /\ retSegments = <<>>

\* The trace of "F]" has ended with IndexError after it drew one segment.
C6_Witness ==
  /\ pc = "raised" /\ exception = "IndexError"
  /\ finalString = <<"F", "]">>
  /\ consumed = 1 /\ Len(segments) = 1

\* Number of draw symbols among the first j symbols of s.
DrawCount(s, j) == Cardinality({i \in 1..j : s[i] \in forwardDrawSymbols})

\* C7: in 2D the number of segments equals the number of draw symbols (F, G)
\* in every prefix consumed, whatever jumps, turns, brackets and ignored
\* symbols stand between them, and the list returned has one segment per draw
\* symbol of the string; this holds for the expansions of the fractal plant.
C7_SegmentCount ==
  (cls = "LSystem" /\ Tracing)
    => /\ Len(segments) = DrawCount(finalString, consumed)
       /\ pc = "traced"
            => Len(retSegments) = DrawCount(finalString, Len(finalString))

\* The trace of the third expansion of the fractal plant has returned.
C7_Witness ==
  /\ pc = "traced" /\ cls = "LSystem"
  /\ initialString = PlantAxiom /\ rules = PlantRules
  /\ retIter = 3 /\ finalString = retString
  /\ Len(retString) = 379
  /\ Len(retSegments) = 84

KochOnce == <<"F", "+", "F", "-", "F", "-", "F", "+", "F">>

\* The Koch curve traced after one rewriting round has returned.
KochTraced ==
  /\ pc = "traced" /\ cls = "LSystem"
  /\ initialString = KochAxiom /\ rules = KochRules /\ angle = 1
  /\ initialDirection = <<1, 0>>
  /\ retIter = 1 /\ finalString = retString

\* End of the last segment minus start of the first one.
Displacement(segs) ==
  <<segs[Len(segs)][2][1] - segs[1][1][1], segs[Len(segs)][2][2] - segs[1][1][2]>>

\* C8 as stated: for the Koch curve, getFinalString(1) is "F+F-F-F+F", and
\* tracing it yields 5 segments whose total displacement is (1, 1).
C8_KochDisplacementOneOne ==
  KochTraced
    => /\ retString = KochOnce
       /\ Len(retSegments) = 5
       /\ Displacement(retSegments) = <<1, 1>>

\* C8 as amended: for the Koch curve, getFinalString(1) is "F+F-F-F+F", and
\* tracing it yields 5 segments whose total displacement is (3, 0).
C8_KochScenario ==
  KochTraced
    => /\ retString = KochOnce
       /\ Len(retSegments) = 5
       /\ Displacement(retSegments) = <<3, 0>>

\* The trace of the first Koch expansion has returned its segments.
C8_Witness == KochTraced /\ Len(retSegments) = 5

Orthonormal(h, l) == Dot3(h, h) = 1 /\ Dot3(l, l) = 1 /\ Dot3(h, l) = 0

\* C9: in 3D the head and left-arm vectors are orthonormal after every
\* transition of a trace: each has unit length and they are perpendicular,
\* and so is every pair saved on the stack.
C9_FrameOrthonormal ==
  (cls = "LSystem3D" /\ pc \in {"trace", "traced", "raised"})
    => /\ Orthonormal(currentHeadDirection, currentLeftArmDirection)
       /\ \A i \in 1..Len(stack) : Orthonormal(stack[i][2], stack[i][3])

\* A 3D trace has returned after a yaw, a pitch or roll, and a draw, with
\* both vectors of the frame turned away from their initial values.
C9_Witness ==
  /\ pc = "traced" /\ cls = "LSystem3D"
  /\ \E i \in 1..Len(finalString) : finalString[i] \in {"+", "-"}
  /\ \E i \in 1..Len(finalString) : finalString[i] \in {"&", "^", "\\", "/"}
  /\ currentHeadDirection # initialHeadDirection
  /\ currentLeftArmDirection # initialLeftArmDirection
  /\ Len(retSegments) >= 1

\* LSystem.getSegments with every heading recomputed by rotation of the
\* initial direction and no cache read.
RECURSIVE LoopRecomputed(_, _, _)
LoopRecomputed(t, s, i) ==
  IF i > Len(s) \/ t.raised THEN t
  ELSE LET u == Step2D([t EXCEPT !.cache = EmptyDict], s[i]) IN
         LoopRecomputed([u EXCEPT !.direction = RotatedUnitVector(u.index)], s, i + 1)

Turns(s) == Cardinality({i \in 1..Len(s) : s[i] \in {"+", "-"}})

\* C10: the 2D rotation cache is transparent.  Whatever the cache holds when
\* a call of getSegments starts, the call returns the list it returns when
\* every heading is recomputed by rotation and the cache is never read.
C10_CacheTransparent ==
  (cls = "LSystem" /\ pc = "traced")
    => retSegments = LoopRecomputed(Start2D(EmptyDict), finalString, 1).segments

\* A trace that turned and drew has returned on an instance whose cache held
\* entries of earlier calls when it started.
C10_Witness ==
  /\ pc = "traced" /\ cls = "LSystem"
  /\ Turns(finalString) >= 1
  /\ Len(retSegments) >= 1
  /\ \E i \in 1..Len(retSegments) :
       retSegments[i][2] # Add2(retSegments[i][1], initialDirection)
  /\ Cardinality(DOMAIN rotatedVectors) >= Turns(finalString) + 2

(***************************************************************************)
(* Further claims about the rewriter                                       *)
(***************************************************************************)
NoVariableIn(s) == \A i \in 1..Len(s) : s[i] \notin variables

\* C11: a string that holds no variable is a fixed point of rewriting.  One
\* round returns it unchanged, whatever the rule mapping holds, and
\* getFinalString(n) returns the axiom for every n when the axiom holds no
\* variable.
C11_FixedPoint ==
  /\ (pc = "expand" /\ NoVariableIn(currentString))
       => /\ rewriteOnce(currentString) = currentString
          /\ (RoundsLeft /\ scanned = Len(currentString))
               => nextString = currentString
  /\ (pc = "expanded" /\ NoVariableIn(initialString))
       => retString = initialString

\* getFinalString(n), n >= 2, has returned on an axiom without variables, one
\* of whose symbols has an entry in the rule mapping that would change it.
C11_Witness ==
  /\ pc = "expanded" /\ retIter >= 2
  /\ NoVariableIn(initialString)
  /\ variables # {}
  /\ \E i \in 1..Len(initialString) :
       /\ initialString[i] \in DOMAIN rules
       /\ rules[initialString[i]] # <<initialString[i]>>

(***************************************************************************)
(* Further claims about the tracer                                         *)
(***************************************************************************)
\* Indices k, j held by the cache that lie a whole number of full turns apart.
FullTurnsApart(k, j) == k # j /\ (angle * (j - k)) % 4 = 0

Abs(n) == IF n < 0 THEN -n ELSE n

\* C12 as stated: 2D rotation is periodic.  When angle * period is a multiple
\* of a full turn, the vector for k + period equals the vector for k, for
\* positive and negative k, as the values the program holds.
C12_PeriodicExactly ==
  cls = "LSystem" =>
    \A k \in DOMAIN rotatedVectors : \A j \in DOMAIN rotatedVectors :
      FullTurnsApart(k, j)
        => /\ rotatedVectors[j] = rotatedVectors[k]
           /\ RotatedUnitVectorResidue(j) = RotatedUnitVectorResidue(k)

\* C12 as amended: when angle * period is a multiple of a full turn, the
\* vector for k + period equals the vector for k up to rounding, for positive
\* and negative k: the two agree in the value they stand for, and each
\* coordinate is off that value by at most angle * abs(index) units of
\* rounding error; the doubles themselves differ.
C12_PeriodicWithinTolerance ==
  cls = "LSystem" =>
    \A k \in DOMAIN rotatedVectors : \A j \in DOMAIN rotatedVectors :
      FullTurnsApart(k, j)
        => /\ rotatedVectors[j] = rotatedVectors[k]
           /\ \A c \in 1..2 :
                /\ Abs(RotatedUnitVectorResidue(k)[c]) <= angle * Abs(k)
                /\ Abs(RotatedUnitVectorResidue(j)[c]) <= angle * Abs(j)
           /\ RotatedUnitVectorResidue(j) # RotatedUnitVectorResidue(k)

\* With a quarter-turn angle, a trace has turned four times to the left and
\* drawn, and the cache holds entries a full turn apart on both sides of 0.
C12_Witness ==
  /\ cls = "LSystem" /\ angle = 1 /\ pc = "trace"
  /\ consumed = 5
  /\ \A i \in 1..4 : finalString[i] = "+"
  /\ finalString[5] = "F"
  /\ currentDirection = initialDirection
  /\ {-3, 1, 4} \subseteq DOMAIN rotatedVectors

\* A step of the loop of LSystem.getSegments that does not raise.
Consumes2D == cls = "LSystem" /\ pc = "trace" /\ consumed' = consumed + 1

NextSymbol == finalString[consumed + 1]

\* C13: segment list discipline in the 2D trace.  A draw symbol appends the
\* one segment (position, position + heading) at the end of the list and
\* moves the position to its end point; a jump symbol moves the position to
\* position + heading and emits no segment; no step, ']' and the failing ']'
\* included, removes, reorders or modifies a segment that is in the list; and
\* the list returned is the list as it stands at the end of the string.
C13_SegmentDiscipline ==
  [][/\ Consumes2D =>
          /\ NextSymbol \in forwardDrawSymbols
               => /\ segments'
                       = Append(segments,
                                <<currentPoint, Add2(currentPoint, currentDirection)>>)
                  /\ currentPoint' = Add2(currentPoint, currentDirection)
          /\ NextSymbol \in forwardJumpSymbols
               => /\ segments' = segments
                  /\ currentPoint' = Add2(currentPoint, currentDirection)
          /\ NextSymbol \notin forwardDrawSymbols => segments' = segments
          /\ Len(segments') >= Len(segments)
          /\ SubSeq(segments', 1, Len(segments)) = segments
     /\ (cls = "LSystem" /\ pc = "trace" /\ pc' = "raised") => segments' = segments
     /\ (cls = "LSystem" /\ pc = "trace" /\ pc' = "traced")
          => segments' = segments /\ retSegments' = segments]_vars

\* A 2D trace has returned four segments or more after it drew inside and
\* outside brackets, jumped, and closed brackets.
C13_Witness ==
  /\ cls = "LSystem" /\ pc = "traced"
  /\ Len(retSegments) >= 4
  /\ \E i \in 1..Len(finalString) : finalString[i] \in forwardJumpSymbols
  /\ \E i \in 1..Len(finalString) :
       /\ finalString[i] = "]"
       /\ \E j \in (i + 1)..Len(finalString) : finalString[j] \in forwardDrawSymbols
  /\ retSegments[1] # retSegments[Len(retSegments)]

DispatchedSymbols == forwardDrawSymbols \cup forwardJumpSymbols \cup {"+", "-", "[", "]"}

\* C14: symbol dispatch in the 2D trace.  A consumed symbol has the effect of
\* one branch only: a draw or a jump leaves heading, rotation index and stack
\* alone; a turn, a push or a pop draws nothing and does not move the turtle
\* forward; and a symbol that is none of F, G, f, g, +, -, [, ] leaves
\* position, heading, rotation index, stack and segment list unchanged.
C14_Dispatch ==
  [][Consumes2D =>
       /\ NextSymbol \in forwardDrawSymbols \cup forwardJumpSymbols
            => /\ UNCHANGED <<currentDirection, rotationIndex, stack, rotatedVectors>>
               /\ currentPoint' = Add2(currentPoint, currentDirection)
               /\ Len(segments')
                    = Len(segments) + (IF NextSymbol \in forwardDrawSymbols THEN 1 ELSE 0)
       /\ NextSymbol \in {"+", "-"}
            => /\ UNCHANGED <<currentPoint, segments, stack>>
               /\ rotationIndex' = rotationIndex + (IF NextSymbol = "+" THEN 1 ELSE -1)
       /\ NextSymbol = "["
            => /\ UNCHANGED <<currentPoint, currentDirection, rotationIndex, segments,
                              rotatedVectors>>
               /\ stack' = Append(stack, <<currentPoint, currentDirection, rotationIndex>>)
       /\ NextSymbol = "]"
            => /\ UNCHANGED <<segments, rotatedVectors>>
               /\ stack' = SubSeq(stack, 1, Len(stack) - 1)
               /\ <<currentPoint', currentDirection', rotationIndex'>> = stack[Len(stack)]
       /\ NextSymbol \notin DispatchedSymbols
            => UNCHANGED <<currentPoint, currentDirection, rotationIndex, stack,
                           segments, rotatedVectors>>]_vars

\* A 2D trace has just passed a symbol that no branch tests for, with a
\* segment drawn and an entry on the stack.
C14_Witness ==
  /\ cls = "LSystem" /\ pc = "trace"
  /\ consumed >= 1
  /\ finalString[consumed] \notin DispatchedSymbols
  /\ segments # <<>> /\ stack # <<>>

\* The heading that goes with rotation index k: the cache holds it, and it
\* is the initial heading rotated by angle * k.
HeadingOf(k, heading) ==
  /\ k \in DOMAIN rotatedVectors
  /\ heading = rotatedVectors[k]
  /\ heading = RotatedUnitVector(k)

CountOf(c, s, j) == Cardinality({i \in 1..j : s[i] = c})

\* C16: heading/index consistency in the 2D trace.  In every state of a call
\* the current heading is the cache entry for rotationIndex, which is the
\* initial heading rotated by angle * rotationIndex, and so is the heading of
\* every stack entry for the index saved with it; while no bracket has been
\* consumed, rotationIndex is the number of '+' minus the number of '-'
\* consumed; and '+' followed at once by '-' restores the heading and the
\* index that were there before the two.
C16_HeadingIndexConsistent ==
  (cls = "LSystem" /\ pc \in {"trace", "traced", "raised"})
    => /\ HeadingOf(rotationIndex, currentDirection)
       /\ \A i \in 1..Len(stack) : HeadingOf(stack[i][3], stack[i][2])
       /\ (CountOf("[", finalString, consumed) = 0
             /\ CountOf("]", finalString, consumed) = 0)
            => rotationIndex
                 = CountOf("+", finalString, consumed) - CountOf("-", finalString, consumed)
       /\ (consumed >= 2 /\ finalString[consumed - 1] = "+"
             /\ finalString[consumed] = "-")
            => LET before == Loop2D(Start2D(rotatedVectors),
                                    SubSeq(finalString, 1, consumed - 2), 1)
               IN /\ currentDirection = before.direction
                  /\ rotationIndex = before.index

\* A 2D trace has just closed a bracket: it is back on a turned heading, and
\* the stack still holds an entry.
C16_Witness ==
  /\ cls = "LSystem" /\ pc = "trace"
  /\ consumed >= 1 /\ finalString[consumed] = "]"
  /\ rotationIndex # 0
  /\ currentDirection # initialDirection
  /\ stack # <<>>
  /\ stack[Len(stack)][3] # rotationIndex

\* The pairs of 3D turn symbols that undo each other.
InversePairs ==
  { <<"+", "-">>, <<"-", "+">>, <<"&", "^">>, <<"^", "&">>,
    <<"\\", "/">>, <<"/", "\\">>, <<"|", "|">> }

\* A step of the loop of LSystem3D.getSegments that does not raise.
Consumes3D == cls = "LSystem3D" /\ pc = "trace" /\ consumed' = consumed + 1

C18_StackDepth ==
  /\ pc \in {"trace", "traced", "raised"}
       => /\ Len(stack) = Depth(finalString, consumed)
          /\ Len(stack) >= 0
  /\ pc = "raised" => ~NoUnderflow(finalString, consumed + 1)
  /\ pc = "traced"
       => /\ consumed = Len(finalString)
          /\ Len(retSegments) = DrawCount(finalString, Len(finalString))

\* A trace has returned with two entries left on the stack, after it drew
\* inside each of the two unclosed brackets.
C18_Witness ==
  /\ pc = "traced"
  /\ Len(stack) = 2
  /\ \E i \in 1..Len(finalString) :
       finalString[i] \in forwardDrawSymbols /\ Depth(finalString, i) = 1
  /\ \E i \in 1..Len(finalString) :
       finalString[i] \in forwardDrawSymbols /\ Depth(finalString, i) = 2
  /\ Len(retSegments) >= 2

(***************************************************************************)
(* Claims about the instance, checked under SpecCalls.                     *)
(***************************************************************************)
\* C15: grammar immutability.  No step of a getFinalString or getSegments
\* call changes the variables, constants, rules, angle, axiom or initial
\* heading of the instance.  The rotation cache changes inside getSegments
\* only and only by gaining entries: an entry once stored, the entry for 0
\* with the initial heading included, is never overwritten or removed.
C15_GrammarImmutable ==
  [][/\ UNCHANGED <<cls, variables, constants, rules, angle, initialString,
                    initialDirection>>
     /\ rotatedVectors' # rotatedVectors
          => /\ pc = "trace" /\ pc' = "trace"
             /\ Cardinality(DOMAIN rotatedVectors') > Cardinality(DOMAIN rotatedVectors)
     /\ \A k \in DOMAIN rotatedVectors :
          k \in DOMAIN rotatedVectors' /\ rotatedVectors'[k] = rotatedVectors[k]
     /\ 0 \in DOMAIN rotatedVectors' /\ rotatedVectors'[0] = initialDirection']_vars

\* The trace of getFinalString(1) has returned on an instance whose cache
\* holds entries that only earlier getSegments calls can have stored.
C15_Witness ==
  /\ pc = "traced" /\ retIter = 1
  /\ finalString = retString /\ retString = KochOnce
  /\ {-2, -1, 1, 2} \subseteq DOMAIN rotatedVectors

====
